---- MODULE Spec2Model ----
(***************************************************************************)
(* CategoryCards (src/unnamed/part_000, lines 383-776, the variant         *)
(* three-setup.js imports) driven by the host render loop and the canvas   *)
(* and window listeners of src/src/scripts/three-setup.js.                 *)
(*                                                                         *)
(* JavaScript numbers are modelled as exact rationals <<n, d>> in lowest   *)
(* terms with d > 0.  Scroll offsets are pixels taken from a grid of       *)
(* ANIMATION_SCROLL_DISTANCE / 5 = 640 px, so that 0.4 (the end of the     *)
(* flip phase) and 1 fall on grid points and every cube stays in range.    *)
(* A nullable field is <<>> (null) or <<v>>.                               *)
(***************************************************************************)
EXTENDS Integers, Sequences, FiniteSets, TLC

VARIABLES
  renderer,            \* TRUE iff init() created container/camera/scene/raycaster/renderer
  listening,           \* TRUE iff the canvas listeners are registered
  cameraAspect,        \* camera.aspect (<<>> while there is no camera)
  sectionTop,          \* this.sectionTop
  sectionBottom,       \* this.sectionBottom
  scrollProgress,      \* this.scrollProgress
  stickyStartScroll,   \* this.stickyStartScroll
  mouse,               \* this.mouse, <<x, y>> in normalized device coordinates
  mouseIsOver,         \* this.mouseIsOver
  hoveredCard,         \* this.hoveredCard, <<>> or <<index>>
  interactionsEnabled, \* this.interactionsEnabled
  cursor,              \* renderer.domElement.style.cursor
  cards,               \* this.cards: index -> mesh pose and userData
  emitted,             \* the categoryCardClick events the last handler dispatched on document
  probe                \* the arguments and results of one method studied on its own
                       \* (<<>> while the whole program runs)

vars == <<renderer, listening, cameraAspect, sectionTop, sectionBottom,
          scrollProgress, stickyStartScroll, mouse, mouseIsOver, hoveredCard,
          interactionsEnabled, cursor, cards, emitted>>

----------------------------------------------------------------------------
(* Bounds of the model.                                                    *)

\* scroll offsets range over 0 .. MaxScrollSteps grid points
MaxScrollSteps == 6
\* the phases are sampled at the multiples of 1 / (5 * SamplesPerFifth)
SamplesPerFifth == 40
\* a hover value starts at one of RangeSamples + 1 evenly spaced points of
\* its range and is smoothed for MaxFrames frames
RangeSamples == 4
MaxFrames == 40
\* number of category cards created (the source creates five)
NumCards == 2
\* a frame runs only while every smoothed hover value stays a multiple of
\* 20^-MaxSmoothSteps of its range (exact arithmetic never reaches the target)
MaxSmoothSteps == 1

(* Program constants.                                                      *)
ANIMATION_SCROLL_DISTANCE == 3200

----------------------------------------------------------------------------
(* Nullable values.                                                        *)
Null == <<>>
Some(v) == <<v>>
Val(m) == m[1]

----------------------------------------------------------------------------
(* Exact rational arithmetic for JavaScript numbers.                       *)
RECURSIVE GCD(_, _)
GCD(a, b) == IF b = 0 THEN a ELSE GCD(b, a % b)

Abs(x) == IF x < 0 THEN 0 - x ELSE x

Rat(n, d) ==
  LET g == GCD(Abs(n), Abs(d))
      s == IF d < 0 THEN 0 - 1 ELSE 1
  IN  <<(s * n) \div g, (s * d) \div g>>

R(n) == <<n, 1>>
Zero == R(0)
One == R(1)

RNeg(a) == <<0 - a[1], a[2]>>

RAdd(a, b) ==
  IF a[1] = 0 THEN b
  ELSE IF b[1] = 0 THEN a
  ELSE IF a[2] = b[2] THEN Rat(a[1] + b[1], a[2])
  ELSE LET g == GCD(a[2], b[2])
       IN  Rat(a[1] * (b[2] \div g) + b[1] * (a[2] \div g), (a[2] \div g) * b[2])

RSub(a, b) == RAdd(a, RNeg(b))

RMul(a, b) ==
  IF a[1] = 0 \/ b[1] = 0 THEN Zero
  ELSE IF a = One THEN b
  ELSE IF b = One THEN a
  ELSE LET g1 == GCD(Abs(a[1]), b[2])
           g2 == GCD(Abs(b[1]), a[2])
       IN  <<(a[1] \div g1) * (b[1] \div g2), (a[2] \div g2) * (b[2] \div g1)>>

\* a / b for b # 0
RDiv(a, b) ==
  RMul(a, IF b[1] < 0 THEN <<0 - b[2], 0 - b[1]>> ELSE <<b[2], b[1]>>)

RLt(a, b) ==
  IF a[2] = b[2] THEN a[1] < b[1]
  ELSE LET g == GCD(a[2], b[2])
       IN  a[1] * (b[2] \div g) < b[1] * (a[2] \div g)

RLe(a, b) == ~RLt(b, a)

\* Math.min(a, b), Math.max(a, b)
RMin(a, b) == IF RLt(b, a) THEN b ELSE a
RMax(a, b) == IF RLt(a, b) THEN b ELSE a

\* Math.pow(a, 3)
RCube(a) == RMul(a, RMul(a, a))

RAbs(a) == <<Abs(a[1]), a[2]>>

RECURSIVE Pow(_, _)
Pow(b, e) == IF e = 0 THEN 1 ELSE b * Pow(b, e - 1)

----------------------------------------------------------------------------
(* Natural numbers of any size, as their BigBase digits from the least     *)
(* significant one (<<>> is 0): forty frames of smoothing need fractions   *)
(* of 20^-40.                                                              *)

BigBase == 10000

RECURSIVE BigOf(_)
BigOf(n) == IF n = 0 THEN <<>> ELSE <<n % BigBase>> \o BigOf(n \div BigBase)

RECURSIVE BigTimes(_, _, _)
\* a * k + carry, for k >= 1
BigTimes(a, k, carry) ==
  IF a = <<>> THEN BigOf(carry)
  ELSE LET v == Head(a) * k + carry
       IN  <<v % BigBase>> \o BigTimes(Tail(a), k, v \div BigBase)

RECURSIVE BigPlus(_, _, _)
\* a + b + carry
BigPlus(a, b, carry) ==
  IF a = <<>> /\ b = <<>> THEN BigOf(carry)
  ELSE LET x == IF a = <<>> THEN 0 ELSE Head(a)
           y == IF b = <<>> THEN 0 ELSE Head(b)
           v == x + y + carry
       IN  <<v % BigBase>> \o
             BigPlus(IF a = <<>> THEN a ELSE Tail(a),
                     IF b = <<>> THEN b ELSE Tail(b), v \div BigBase)

RECURSIVE BigTrim(_)
BigTrim(a) ==
  IF a = <<>> THEN a
  ELSE IF a[Len(a)] = 0 THEN BigTrim(SubSeq(a, 1, Len(a) - 1))
  ELSE a

RECURSIVE BigMinusDigits(_, _, _)
BigMinusDigits(a, b, borrow) ==
  IF a = <<>> THEN <<>>
  ELSE LET y == (IF b = <<>> THEN 0 ELSE Head(b)) + borrow
           v == Head(a) - y
           rest == IF b = <<>> THEN b ELSE Tail(b)
       IN  IF v < 0
           THEN <<v + BigBase>> \o BigMinusDigits(Tail(a), rest, 1)
           ELSE <<v>> \o BigMinusDigits(Tail(a), rest, 0)

\* a - b, for a >= b
BigMinus(a, b) == BigTrim(BigMinusDigits(a, b, 0))

RECURSIVE BigLess(_, _)
BigLess(a, b) ==
  IF Len(a) # Len(b) THEN Len(a) < Len(b)
  ELSE IF a = <<>> THEN FALSE
  ELSE IF a[Len(a)] # b[Len(b)] THEN a[Len(a)] < b[Len(b)]
  ELSE BigLess(SubSeq(a, 1, Len(a) - 1), SubSeq(b, 1, Len(b) - 1))

\* |a - b|
BigDistance(a, b) == IF BigLess(a, b) THEN BigMinus(b, a) ELSE BigMinus(a, b)

----------------------------------------------------------------------------
(* Inputs the host document can supply.                                    *)

\* window.scrollY, in pixels
ScrollStep == ANIMATION_SCROLL_DISTANCE \div 5
ScrollOffsets == {k * ScrollStep : k \in 0 .. MaxScrollSteps}

\* getBoundingClientRect().top of #categories-section, in pixels
TopEdges == {0 - 640, 0, 640}

\* offsetTop and offsetHeight of #categories-section
SectionOffsets == {0, 1280}
SectionHeight == ANIMATION_SCROLL_DISTANCE + 800

\* <<offsetWidth, offsetHeight>> of #category-cards-container
ContainerSizes == {<<1600, 400>>}
\* window.innerWidth, used by createCards when there is no container
WindowWidths == {1500}

\* <<clientX, clientY>> of a pointer event on the canvas, whose bounding
\* rectangle is <<left, top, width, height>>
CanvasRect == <<0, 0, 800, 400>>
ClientPoints == {<<400, 200>>, <<800, 400>>}

CardIds == 0 .. NumCards - 1

RECURSIVE Perms(_)
\* every ordering of the cards of S
Perms(S) ==
  IF S = {} THEN {<<>>}
  ELSE UNION {{<<c>> \o t : t \in Perms(S \ {c})} : c \in S}

\* what raycaster.intersectObjects(this.cards, false) can return: the cards
\* the ray crosses, nearest first
HitLists == UNION {Perms(S) : S \in SUBSET CardIds}

----------------------------------------------------------------------------
(* createCards.                                                            *)

CategoryNames == <<"Baseball", "Basketball", "Hockey", "Golf", "Football">>

\* Math.tan(vFOV / 2) for fov = 45 degrees, to four places
TanHalfFov == <<2071, 5000>>

calculateVisibleWidth(cameraZ, aspect) ==
  LET visibleHeight == RMul(RMul(R(2), TanHalfFov), R(cameraZ))
  IN  RMul(visibleHeight, aspect)

baseCardWidth == <<3, 2>>
baseSpacingRatio == <<1, 5>>

CardScale(aspect) ==
  LET visibleWidth == calculateVisibleWidth(20, aspect)
      totalUnitsNeeded ==
        RMul(baseCardWidth, RAdd(RMul(R(4), RAdd(One, baseSpacingRatio)), One))
  IN  RMin(R(5), RDiv(RMul(visibleWidth, <<17, 20>>), totalUnitsNeeded))

Spacing(aspect) ==
  RMul(RMul(baseCardWidth, CardScale(aspect)), RAdd(One, baseSpacingRatio))

\* faulty variant: the cards are centred on half the number of cards
targetXOffCentre(i, n, aspect) ==
  LET centerOffset == Rat(n, 2)
  IN  RMul(RSub(R(i), centerOffset), Spacing(aspect))

\* userData.targetX of card i of n
targetX(i, n, aspect) ==
  LET centerOffset == Rat(n - 1, 2)
  IN  RMul(RSub(R(i), centerOffset), Spacing(aspect))

\* the mesh and userData of card i; rotations are in units of pi
NewCard(i, aspect) ==
  LET centerOffset == Rat(NumCards - 1, 2)
  IN  [ index           |-> i,
        categoryName    |-> CategoryNames[i + 1],
        positionX       |-> Rat(i, 4),
        positionZ       |-> Rat(i, 2),
        rotationY       |-> One,
        scale           |-> One,
        targetX         |-> targetX(i, NumCards, aspect),
        initialX        |-> Zero,
        initialRotation |-> One,
        hoverScale      |-> One,
        baseZ           |-> Rat(i, 2),
        hoverZ          |-> Zero ]

createCards(aspect) == [i \in CardIds |-> NewCard(i, aspect)]

----------------------------------------------------------------------------
(* The object's fields as one record, so that a handler is the composition *)
(* of the methods it calls.  A handler starts with nothing dispatched.     *)

This ==
  [ renderer            |-> renderer,
    listening           |-> listening,
    cameraAspect        |-> cameraAspect,
    sectionTop          |-> sectionTop,
    sectionBottom       |-> sectionBottom,
    scrollProgress      |-> scrollProgress,
    stickyStartScroll   |-> stickyStartScroll,
    mouse               |-> mouse,
    mouseIsOver         |-> mouseIsOver,
    hoveredCard         |-> hoveredCard,
    interactionsEnabled |-> interactionsEnabled,
    cursor              |-> cursor,
    cards               |-> cards,
    emitted             |-> <<>> ]

Commit(st) ==
  /\ renderer' = st.renderer
  /\ listening' = st.listening
  /\ cameraAspect' = st.cameraAspect
  /\ sectionTop' = st.sectionTop
  /\ sectionBottom' = st.sectionBottom
  /\ scrollProgress' = st.scrollProgress
  /\ stickyStartScroll' = st.stickyStartScroll
  /\ mouse' = st.mouse
  /\ mouseIsOver' = st.mouseIsOver
  /\ hoveredCard' = st.hoveredCard
  /\ interactionsEnabled' = st.interactionsEnabled
  /\ cursor' = st.cursor
  /\ cards' = st.cards
  /\ emitted' = st.emitted
  /\ probe' = probe

\* renderer.domElement.style.cursor = c, when there is a renderer
SetCursor(st, c) == IF st.renderer THEN [st EXCEPT !.cursor = c] ELSE st

\* sec is <<>> when #categories-section is absent, else <<offsetTop>>
updateSectionDimensions(st, sec) ==
  IF sec # Null
  THEN [st EXCEPT !.sectionTop = Val(sec),
                  !.sectionBottom = Val(sec) + SectionHeight]
  ELSE st

\* the constructor's field values
Constructed ==
  [ renderer            |-> FALSE,
    listening           |-> FALSE,
    cameraAspect        |-> Null,
    sectionTop          |-> 0,
    sectionBottom       |-> 0,
    scrollProgress      |-> Zero,
    stickyStartScroll   |-> Null,
    mouse               |-> <<R(0 - 999), R(0 - 999)>>,
    mouseIsOver         |-> FALSE,
    hoveredCard         |-> Null,
    interactionsEnabled |-> FALSE,
    cursor              |-> "none",
    cards               |-> <<>>,
    emitted             |-> <<>> ]

\* init(): size is <<>> when #category-cards-container is absent
init(st, size, sec) ==
  IF size = Null THEN st
  ELSE updateSectionDimensions(
         [st EXCEPT !.renderer = TRUE,
                    !.listening = TRUE,
                    !.cameraAspect = Rat(Val(size)[1], Val(size)[2]),
                    !.cursor = "default"],
         sec)

----------------------------------------------------------------------------
(* animate and the methods it calls.                                       *)

\* the values a division by zero produces: NaN, Infinity and -Infinity
NaN == <<0, 0>>
Infinity == <<1, 0>>
NegInfinity == <<0 - 1, 0>>

\* n / d for two integers, as JavaScript divides
Quotient(n, d) ==
  IF d # 0 THEN Rat(n, d)
  ELSE IF n = 0 THEN NaN
  ELSE IF n > 0 THEN Infinity
  ELSE NegInfinity

\* Math.min(a, b): NaN if either argument is NaN
MathMin(a, b) == IF a = NaN \/ b = NaN THEN NaN ELSE RMin(a, b)

\* Math.min(1, scrolledSinceSticky / this.ANIMATION_SCROLL_DISTANCE), the
\* field holding distance
ProgressAt(scrolledSinceSticky, distance) ==
  MathMin(One, Quotient(scrolledSinceSticky, distance))

\* the same with the distance the constructor sets
ProgressOf(scrolledSinceSticky) ==
  ProgressAt(scrolledSinceSticky, ANIMATION_SCROLL_DISTANCE)

\* faulty variant: the anchor is overwritten on every pinned frame
PinnedReanchors(st, currentScroll) ==
  [st EXCEPT !.stickyStartScroll = Some(currentScroll),
             !.scrollProgress = ProgressOf(0)]

\* the isAtTop branch of animate, this.ANIMATION_SCROLL_DISTANCE holding
\* distance
PinnedAt(st, currentScroll, distance) ==
  LET anchor == IF st.stickyStartScroll = Null
                THEN Some(currentScroll)
                ELSE st.stickyStartScroll
  IN  [st EXCEPT !.stickyStartScroll = anchor,
                 !.scrollProgress =
                   ProgressAt(currentScroll - Val(anchor), distance)]

\* the isAtTop branch of animate
Pinned(st, currentScroll) ==
  PinnedAt(st, currentScroll, ANIMATION_SCROLL_DISTANCE)

\* faulty variant: the else branch forgets to clear the anchor
NotPinnedKeepsAnchor(st) ==
  [st EXCEPT !.scrollProgress = Zero]

\* the else branch of animate
NotPinned(st) ==
  [st EXCEPT !.scrollProgress = Zero, !.stickyStartScroll = Null]

\* faulty variant: the sticky threshold is tested with < instead of <=
TrackScrollStrict(st, sec, rectTop, currentScroll) ==
  LET s1 == IF st.sectionTop = 0 THEN updateSectionDimensions(st, sec) ELSE st
      isAtTop == rectTop < 0
  IN  IF isAtTop THEN Pinned(s1, currentScroll) ELSE NotPinned(s1)

\* animate up to the call of applyScrollAnimation, the section being present
\* and this.ANIMATION_SCROLL_DISTANCE holding distance
TrackScrollAt(st, sec, rectTop, currentScroll, distance) ==
  LET s1 == IF st.sectionTop = 0 THEN updateSectionDimensions(st, sec) ELSE st
      isAtTop == rectTop <= 0
  IN  IF isAtTop THEN PinnedAt(s1, currentScroll, distance) ELSE NotPinned(s1)

\* faulty variant: the pinned test compares the scroll offset with the cached
\* this.sectionTop instead of the section's bounding rectangle
TrackScrollByCachedTop(st, sec, rectTop, currentScroll) ==
  LET s1 == IF st.sectionTop = 0 THEN updateSectionDimensions(st, sec) ELSE st
      isAtTop == currentScroll >= s1.sectionTop
  IN  IF isAtTop THEN Pinned(s1, currentScroll) ELSE NotPinned(s1)

\* animate up to the call of applyScrollAnimation, the section being present
TrackScroll(st, sec, rectTop, currentScroll) ==
  LET s1 == IF st.sectionTop = 0 THEN updateSectionDimensions(st, sec) ELSE st
      isAtTop == rectTop <= 0
  IN  IF isAtTop THEN Pinned(s1, currentScroll) ELSE NotPinned(s1)

\* faulty variant: the ease-in branch is quadratic
easeInSquared(t) == RMul(R(4), RMul(t, t))

\* the two branches of easeInOutCubic: 4 * t * t * t, and
\* 1 - Math.pow(-2 * t + 2, 3) / 2
easeIn(t) == RMul(R(4), RCube(t))
easeOut(t) == RSub(One, RDiv(RCube(RAdd(RMul(R(0 - 2), t), R(2))), R(2)))

easeInOutCubic(t) ==
  IF RLt(t, <<1, 2>>)
  THEN easeIn(t)
  ELSE easeOut(t)

\* faulty variant: the flip ratio is not clamped
FlipProgressUnclamped(p) == RDiv(p, <<2, 5>>)

\* faulty variant: the flip phase ends at 0.5
FlipProgressLate(p) == RMin(One, RDiv(p, <<1, 2>>))

\* Math.min(1, this.scrollProgress / 0.4)
FlipProgress(p) == RMin(One, RDiv(p, <<2, 5>>))

\* faulty variant: the spread phase starts at 0.2, before the flip has ended
SpreadProgressEarly(p) == RMax(Zero, RDiv(RSub(p, <<1, 5>>), <<4, 5>>))

\* faulty variant: the spread phase is stretched beyond scrollProgress = 1
SpreadProgressSlow(p) == RMax(Zero, RDiv(RSub(p, <<2, 5>>), <<4, 5>>))

\* Math.max(0, (this.scrollProgress - 0.4) / 0.6)
SpreadProgress(p) == RMax(Zero, RDiv(RSub(p, <<2, 5>>), <<3, 5>>))

\* faulty variant: > instead of >=
FlipCompleteStrict(flipProgress) == RLt(One, flipProgress)

\* faulty variant: the flip ratio is compared with 0 instead of 1
FlipCompleteFromStart(flipProgress) == RLe(Zero, flipProgress)

\* this.interactionsEnabled = flipProgress >= 1
FlipComplete(flipProgress) == RLe(One, flipProgress)

\* current += (target - current) * 0.15
\* faulty variant: the smoothing factor is 1.15
SmoothOvershoots(current, target) ==
  RAdd(current, RMul(RSub(target, current), <<23, 20>>))

Smooth(current, target) ==
  RAdd(current, RMul(RSub(target, current), <<3, 20>>))

\* faulty variant: the rotation runs from 0 to pi instead of from pi to 0
PoseCardFlipInverted(st, card, easedFlip, easedSpread) ==
  LET baseX == RAdd(card.initialX,
                    RMul(RSub(card.targetX, card.initialX), easedSpread))
      isHovered == st.interactionsEnabled /\ st.hoveredCard = Some(card.index)
      targetHoverScale == IF isHovered THEN <<11, 10>> ELSE One
      targetHoverZ == IF isHovered THEN <<3, 2>> ELSE Zero
      newScale == Smooth(card.hoverScale, targetHoverScale)
      newZ == Smooth(card.hoverZ, targetHoverZ)
  IN  [card EXCEPT !.rotationY = RMul(card.initialRotation, easedFlip),
                   !.positionX = baseX,
                   !.hoverScale = newScale,
                   !.hoverZ = newZ,
                   !.scale = newScale,
                   !.positionZ = RAdd(card.baseZ, newZ)]

\* faulty variant: a hover raises every card, whichever card is hovered
PoseCardRaisesAll(st, card, easedFlip, easedSpread) ==
  LET baseX == RAdd(card.initialX,
                    RMul(RSub(card.targetX, card.initialX), easedSpread))
      isHovered == st.interactionsEnabled /\ st.hoveredCard # Null
      targetHoverScale == IF isHovered THEN <<11, 10>> ELSE One
      targetHoverZ == IF isHovered THEN <<3, 2>> ELSE Zero
      newScale == Smooth(card.hoverScale, targetHoverScale)
      newZ == Smooth(card.hoverZ, targetHoverZ)
  IN  [card EXCEPT !.rotationY = RMul(card.initialRotation, RSub(One, easedFlip)),
                   !.positionX = baseX,
                   !.hoverScale = newScale,
                   !.hoverZ = newZ,
                   !.scale = newScale,
                   !.positionZ = RAdd(card.baseZ, newZ)]

\* faulty variant: the smoothing factor is 0
SmoothExactFrozen(current, target) == BigTimes(current, 20, 0)

\* faulty variant: the smoothing factor is 0.05
SmoothExactSlow(current, target) ==
  BigPlus(BigTimes(current, 19, 0), target, 0)

\* current += (target - current) * 0.15 on numerators: current and target
\* being numerators over one denominator u, the result is the numerator over
\* 20 * u of current + (target - current) * 3/20 = (17 current + 3 target) / 20
SmoothExact(current, target) ==
  BigPlus(BigTimes(current, 17, 0), BigTimes(target, 3, 0), 0)

\* faulty variant: the hover values are smoothed only while interactions are
\* enabled
PoseCardSettlesWhenEnabled(st, card, easedFlip, easedSpread) ==
  LET baseX == RAdd(card.initialX,
                    RMul(RSub(card.targetX, card.initialX), easedSpread))
      isHovered == st.interactionsEnabled /\ st.hoveredCard = Some(card.index)
      targetHoverScale == IF isHovered THEN <<11, 10>> ELSE One
      targetHoverZ == IF isHovered THEN <<3, 2>> ELSE Zero
      newScale == IF st.interactionsEnabled
                  THEN Smooth(card.hoverScale, targetHoverScale)
                  ELSE card.hoverScale
      newZ == IF st.interactionsEnabled
              THEN Smooth(card.hoverZ, targetHoverZ)
              ELSE card.hoverZ
  IN  [card EXCEPT !.rotationY = RMul(card.initialRotation, RSub(One, easedFlip)),
                   !.positionX = baseX,
                   !.hoverScale = newScale,
                   !.hoverZ = newZ,
                   !.scale = newScale,
                   !.positionZ = RAdd(card.baseZ, newZ)]

\* the body of this.cards.forEach in applyScrollAnimation
PoseCard(st, card, easedFlip, easedSpread) ==
  LET baseX == RAdd(card.initialX,
                    RMul(RSub(card.targetX, card.initialX), easedSpread))
      isHovered == st.interactionsEnabled /\ st.hoveredCard = Some(card.index)
      targetHoverScale == IF isHovered THEN <<11, 10>> ELSE One
      targetHoverZ == IF isHovered THEN <<3, 2>> ELSE Zero
      newScale == Smooth(card.hoverScale, targetHoverScale)
      newZ == Smooth(card.hoverZ, targetHoverZ)
  IN  [card EXCEPT !.rotationY = RMul(card.initialRotation, RSub(One, easedFlip)),
                   !.positionX = baseX,
                   !.hoverScale = newScale,
                   !.hoverZ = newZ,
                   !.scale = newScale,
                   !.positionZ = RAdd(card.baseZ, newZ)]

\* the falling edge of interactionsEnabled in applyScrollAnimation
ResetHover(st, wasEnabled) ==
  IF wasEnabled /\ ~st.interactionsEnabled
  THEN SetCursor([st EXCEPT !.hoveredCard = Null], "default")
  ELSE st

\* flipProgress, spreadProgress, easedFlip and easedSpread of applyScrollAnimation
Phase(p) ==
  [ flipProgress   |-> FlipProgress(p),
    spreadProgress |-> SpreadProgress(p),
    easedFlip      |-> easeInOutCubic(FlipProgress(p)),
    easedSpread    |-> easeInOutCubic(SpreadProgress(p)) ]

\* the values animate can give scrollProgress, and their phases
ProgressValues ==
  {Zero} \cup {ProgressOf(s - a) : s \in ScrollOffsets, a \in ScrollOffsets}
Phases == [p \in ProgressValues |-> Phase(p)]

\* faulty variant: interactions, once enabled, are never disabled again
applyScrollAnimationLatched(st) ==
  IF DOMAIN st.cards = {} THEN st
  ELSE
    LET ph == Phases[st.scrollProgress]
        wasEnabled == st.interactionsEnabled
        s1 == [st EXCEPT !.interactionsEnabled =
                 wasEnabled \/ FlipComplete(ph.flipProgress)]
        s2 == ResetHover(s1, wasEnabled)
    IN  [s2 EXCEPT !.cards =
           [i \in DOMAIN s2.cards |->
              PoseCard(s2, s2.cards[i], ph.easedFlip, ph.easedSpread)]]

applyScrollAnimation(st) ==
  IF DOMAIN st.cards = {} THEN st
  ELSE
    LET ph == Phases[st.scrollProgress]
        wasEnabled == st.interactionsEnabled
        s1 == [st EXCEPT !.interactionsEnabled = FlipComplete(ph.flipProgress)]
        s2 == ResetHover(s1, wasEnabled)
    IN  [s2 EXCEPT !.cards =
           [i \in DOMAIN s2.cards |->
              PoseCard(s2, s2.cards[i], ph.easedFlip, ph.easedSpread)]]

\* checkIntersections while interactions are disabled
ClearWhenDisabled(st) ==
  IF st.hoveredCard # Null
  THEN SetCursor([st EXCEPT !.hoveredCard = Null], "default")
  ELSE st

\* checkIntersections reaches raycaster.intersectObjects
RayIsCast(st) ==
  /\ st.interactionsEnabled
  /\ st.mouseIsOver
  /\ st.renderer
  /\ DOMAIN st.cards # {}

\* faulty variant: the farthest hit is taken instead of the nearest
PickFarthest(st, intersects) ==
  IF Len(intersects) > 0
  THEN LET newHovered == Some(intersects[Len(intersects)])
       IN  IF st.hoveredCard # newHovered
           THEN SetCursor([st EXCEPT !.hoveredCard = newHovered], "pointer")
           ELSE st
  ELSE IF st.hoveredCard # Null
       THEN SetCursor([st EXCEPT !.hoveredCard = Null], "default")
       ELSE st

\* faulty variant: a card already hovered is kept while the ray hits any card
PickSticky(st, intersects) ==
  IF Len(intersects) > 0
  THEN IF st.hoveredCard = Null
       THEN SetCursor([st EXCEPT !.hoveredCard = Some(intersects[1])], "pointer")
       ELSE st
  ELSE IF st.hoveredCard # Null
       THEN SetCursor([st EXCEPT !.hoveredCard = Null], "default")
       ELSE st

\* checkIntersections from the ray cast on, intersects being its result
Pick(st, intersects) ==
  IF Len(intersects) > 0
  THEN LET newHovered == Some(intersects[1])
       IN  IF st.hoveredCard # newHovered
           THEN SetCursor([st EXCEPT !.hoveredCard = newHovered], "pointer")
           ELSE st
  ELSE IF st.hoveredCard # Null
       THEN SetCursor([st EXCEPT !.hoveredCard = Null], "default")
       ELSE st

checkIntersections(st, intersects) ==
  IF ~st.interactionsEnabled THEN ClearWhenDisabled(st)
  ELSE IF ~st.mouseIsOver THEN st
  ELSE IF ~st.renderer \/ DOMAIN st.cards = {} THEN st
  ELSE Pick(st, intersects)

\* animate up to the call of checkIntersections, the section being present
Posed(st, sec, rectTop, currentScroll) ==
  applyScrollAnimation(TrackScroll(st, sec, rectTop, currentScroll))

\* faulty variant: an absent section is treated as one not yet at the top
animateResetsWhenAbsent(st, sec, rectTop, currentScroll, intersects) ==
  IF sec = Null
  THEN checkIntersections(applyScrollAnimation(NotPinned(st)), intersects)
  ELSE checkIntersections(Posed(st, sec, rectTop, currentScroll), intersects)

\* animate(timer): sec is <<>> when #categories-section is absent
animate(st, sec, rectTop, currentScroll, intersects) ==
  IF sec = Null THEN st
  ELSE checkIntersections(Posed(st, sec, rectTop, currentScroll), intersects)

----------------------------------------------------------------------------
(* The listeners.                                                          *)

\* ((event.clientX - rect.left) / rect.width) * 2 - 1 and
\* -((event.clientY - rect.top) / rect.height) * 2 + 1
ToNdc(client, rect) ==
  << RSub(RMul(Rat(client[1] - rect[1], rect[3]), R(2)), One),
     RAdd(RMul(RNeg(Rat(client[2] - rect[2], rect[4])), R(2)), One) >>

OffScreen == <<R(0 - 999), R(0 - 999)>>

\* faulty variant: the pointer-move handler marks the first card hovered itself
onMouseMoveHoversFirst(st, client) ==
  IF ~st.renderer THEN st
  ELSE SetCursor([st EXCEPT !.mouseIsOver = TRUE,
                            !.mouse = ToNdc(client, CanvasRect),
                            !.hoveredCard = Some(0)], "pointer")

\* faulty variant: while the pointer is over the canvas the coordinates of
\* the first move are kept
onMouseMoveKeepsFirst(st, client) ==
  IF ~st.renderer \/ st.mouseIsOver THEN st
  ELSE [st EXCEPT !.mouseIsOver = TRUE, !.mouse = ToNdc(client, CanvasRect)]

onMouseMove(st, client) ==
  IF ~st.renderer THEN st
  ELSE [st EXCEPT !.mouseIsOver = TRUE, !.mouse = ToNdc(client, CanvasRect)]

\* faulty variant: the pointer leaves without the hover state being reset
onMouseLeaveKeepsHover(st) ==
  [st EXCEPT !.mouseIsOver = FALSE, !.mouse = OffScreen]

\* faulty variant: the pointer leaves and the hover is cleared, the cursor
\* style being left as it was
onMouseLeaveKeepsCursor(st) ==
  [st EXCEPT !.mouseIsOver = FALSE, !.mouse = OffScreen, !.hoveredCard = Null]

onMouseLeave(st) ==
  LET s1 == [st EXCEPT !.mouseIsOver = FALSE, !.mouse = OffScreen]
  IN  IF s1.hoveredCard # Null
      THEN SetCursor([s1 EXCEPT !.hoveredCard = Null], "default")
      ELSE s1

\* faulty variant: the event carries a one-based index
ClickDetailOneBased(st) ==
  [ category |-> st.cards[Val(st.hoveredCard)].categoryName,
    index    |-> st.cards[Val(st.hoveredCard)].index + 1 ]

\* the detail of the CustomEvent onClick dispatches
ClickDetail(st) ==
  [ category |-> st.cards[Val(st.hoveredCard)].categoryName,
    index    |-> st.cards[Val(st.hoveredCard)].index ]

\* onClick gets past its guards and dispatches
ClickDispatches(st) ==
  /\ st.interactionsEnabled
  /\ st.renderer
  /\ st.hoveredCard # Null

\* faulty variant: a click that dispatches also ends the hover
onClickEndsHover(st) ==
  IF ClickDispatches(st)
  THEN SetCursor([st EXCEPT !.emitted = Append(st.emitted, ClickDetail(st)),
                            !.hoveredCard = Null], "default")
  ELSE st

onClick(st) ==
  IF ClickDispatches(st)
  THEN [st EXCEPT !.emitted = Append(st.emitted, ClickDetail(st))]
  ELSE st

\* faulty variant: a resize also drops the scroll anchor
onResizeReanchors(st, size, sec) ==
  IF ~st.renderer THEN st
  ELSE updateSectionDimensions(
         [st EXCEPT !.cameraAspect = Rat(size[1], size[2]),
                    !.stickyStartScroll = Null], sec)

onResize(st, size, sec) ==
  IF ~st.renderer THEN st
  ELSE updateSectionDimensions(
         [st EXCEPT !.cameraAspect = Rat(size[1], size[2])], sec)

\* destroy(): removes the three canvas listeners, when there is a renderer
destroy(st) == IF st.renderer THEN [st EXCEPT !.listening = FALSE] ELSE st

----------------------------------------------------------------------------
(* The program: three-setup.js constructs the manager, calls init() and    *)
(* createCards(), registers the window listeners and starts the loop.      *)

Holds(st) ==
  /\ renderer = st.renderer
  /\ listening = st.listening
  /\ cameraAspect = st.cameraAspect
  /\ sectionTop = st.sectionTop
  /\ sectionBottom = st.sectionBottom
  /\ scrollProgress = st.scrollProgress
  /\ stickyStartScroll = st.stickyStartScroll
  /\ mouse = st.mouse
  /\ mouseIsOver = st.mouseIsOver
  /\ hoveredCard = st.hoveredCard
  /\ interactionsEnabled = st.interactionsEnabled
  /\ cursor = st.cursor
  /\ cards = st.cards
  /\ emitted = st.emitted

\* #categories-section as a frame or a resize finds it
SectionInputs == {Null} \cup {Some(o) : o \in SectionOffsets}

\* the state three-setup.js's init() leaves: size is <<>> when the container
\* is absent, and createCards then sizes the cards from the window
Started(size, sec, innerWidth) ==
  LET s1 == init(Constructed, size, sec)
      aspect == IF size # Null THEN Rat(Val(size)[1], Val(size)[2])
                ELSE Rat(innerWidth, 500)
  IN  [s1 EXCEPT !.cards = createCards(aspect)]

Init ==
  \E size \in {Null} \cup {Some(z) : z \in ContainerSizes},
     sec \in SectionInputs, innerWidth \in WindowWidths :
    Holds(Started(size, sec, innerWidth)) /\ probe = Null

\* every smoothed hover value is within the precision the model carries
SmoothBounded(st) ==
  \A i \in DOMAIN st.cards :
    /\ st.cards[i].hoverScale[2] <= 10 * Pow(20, MaxSmoothSteps)
    /\ st.cards[i].hoverZ[2] <= 2 * Pow(20, MaxSmoothSteps)

\* #categories-section as a frame finds it: its offsetTop is read only while
\* this.sectionTop is 0
FrameSections(st) ==
  IF st.sectionTop = 0 THEN SectionInputs ELSE {Null, Some(st.sectionTop)}

\* what the ray cast of checkIntersections can return, posed being the
\* fields it finds (no ray, no result)
RayResultsOn(posed) == IF RayIsCast(posed) THEN HitLists ELSE {<<>>}

\* what the ray cast of this frame can return
RayResults(st, sec, rectTop, currentScroll) ==
  IF sec = Null THEN {<<>>}
  ELSE RayResultsOn(Posed(st, sec, rectTop, currentScroll))

\* one turn of three-setup.js's animate(): categoryCardsManager.animate(timer)
\* and then render(), which changes no field
\* faulty variant: the pick runs first, on the fields the previous frame
\* left, and the scroll tracking and the posing follow it
FramePicksFirst ==
  LET this == This
  IN  \E sec \in FrameSections(this), rectTop \in TopEdges :
        \E currentScroll \in (IF sec # Null /\ rectTop <= 0 THEN ScrollOffsets ELSE {0}) :
          IF sec = Null
          THEN Commit(this)
          ELSE \E intersects \in RayResultsOn(this) :
                 LET picked == checkIntersections(this, intersects)
                     posed == Posed(picked, sec, rectTop, currentScroll)
                 IN  SmoothBounded(posed) /\ Commit(posed)

Frame ==
  LET this == This
  IN  \E sec \in FrameSections(this), rectTop \in TopEdges :
        \E currentScroll \in (IF sec # Null /\ rectTop <= 0 THEN ScrollOffsets ELSE {0}) :
          IF sec = Null
          THEN Commit(animate(this, sec, rectTop, currentScroll, <<>>))
          ELSE LET posed == Posed(this, sec, rectTop, currentScroll)
               IN  /\ SmoothBounded(posed)
                   /\ \E intersects \in RayResultsOn(posed) :
                        Commit(checkIntersections(posed, intersects))

MouseMove ==
  /\ listening
  /\ \E client \in ClientPoints : Commit(onMouseMove(This, client))

MouseLeave ==
  /\ listening
  /\ Commit(onMouseLeave(This))

Click ==
  /\ listening
  /\ Commit(onClick(This))

\* onWindowResize calls categoryCardsManager.onResize()
Resize ==
  \E size \in ContainerSizes, sec \in SectionInputs :
    Commit(onResize(This, size, sec))

Next == Frame \/ MouseMove \/ MouseLeave \/ Click \/ Resize

Spec == Init /\ [][Next]_vars

----------------------------------------------------------------------------
(* The program with a host that may also tear the component down.          *)
(* three-setup.js never calls destroy(); its own resize listener on window *)
(* and its render loop stay in place whoever calls it.                     *)

Destroy == Commit(destroy(This))

TeardownNext == Next \/ Destroy

TeardownSpec == Init /\ [][TeardownNext]_vars

----------------------------------------------------------------------------
(* The two variants of CategoryCards side by side.  The source holds an    *)
(* earlier variant of the class, which differs from the later one in the   *)
(* layout createCards computes and in the first test of checkIntersections *)
(* (and in an unused field and a console.log); every other method is the   *)
(* same text.  Both are given the same events and frames; the variables    *)
(* hold the later variant and probe holds the fields of the earlier one.   *)
(* Here the ray cast is computed from the pointer and the cards, so that   *)
(* the same pointer position is the same input to both.                    *)

baseSpacingRatioEarlier == <<3, 10>>

CardScaleEarlier(aspect) ==
  LET visibleWidth == calculateVisibleWidth(20, aspect)
      totalUnitsNeeded == RAdd(R(5), RMul(R(4), baseSpacingRatioEarlier))
  IN  RMin(R(5), RDiv(RMul(visibleWidth, <<9, 10>>),
                      RMul(baseCardWidth, totalUnitsNeeded)))

SpacingEarlier(aspect) ==
  RMul(RMul(baseCardWidth, CardScaleEarlier(aspect)),
       RAdd(One, baseSpacingRatioEarlier))

\* userData.targetX of card i of n in the earlier variant
targetXEarlier(i, n, aspect) ==
  LET startX == RDiv(RMul(R(0 - (n - 1)), SpacingEarlier(aspect)), R(2))
  IN  RAdd(startX, RMul(R(i), SpacingEarlier(aspect)))

NewCardEarlier(i, aspect) ==
  [NewCard(i, aspect) EXCEPT !.targetX = targetXEarlier(i, NumCards, aspect)]

createCardsEarlier(aspect) == [i \in CardIds |-> NewCardEarlier(i, aspect)]

\* the aspect createCards sizes the cards from
CardsAspect(size, innerWidth) ==
  IF size # Null THEN Rat(Val(size)[1], Val(size)[2]) ELSE Rat(innerWidth, 500)

StartedEarlier(size, sec, innerWidth) ==
  [init(Constructed, size, sec) EXCEPT
     !.cards = createCardsEarlier(CardsAspect(size, innerWidth))]

\* the earlier checkIntersections: one test for disabled interactions and for
\* a pointer that is not over the canvas, clearing the hover in both cases
checkIntersectionsEarlier(st, intersects) ==
  IF ~st.interactionsEnabled \/ ~st.mouseIsOver THEN ClearWhenDisabled(st)
  ELSE IF ~st.renderer \/ DOMAIN st.cards = {} THEN st
  ELSE Pick(st, intersects)

\* the ray of raycaster.setFromCamera(this.mouse, this.camera) meets card i:
\* the camera is at z = 20 with a vertical field of view of 45 degrees, the
\* card is the face-on box of 1.5 x 2.1 times cardScale, scaled by its hover
\* scale, in the plane z = position.z (the 0.05 thickness and the rounded
\* corners are left out)
RayMeets(st, i, cardScale) ==
  LET card == st.cards[i]
      depth == RSub(R(20), card.positionZ)
      x == RMul(RMul(st.mouse[1], RMul(TanHalfFov, st.cameraAspect)), depth)
      y == RMul(RMul(st.mouse[2], TanHalfFov), depth)
      halfWidth == RMul(RMul(<<3, 4>>, cardScale), card.scale)
      halfHeight == RMul(RMul(<<21, 20>>, cardScale), card.scale)
  IN  /\ RLe(RAbs(RSub(x, card.positionX)), halfWidth)
      /\ RLe(RAbs(y), halfHeight)

RECURSIVE NearestFirst(_, _)
\* the cards of S, the nearest to the camera first
NearestFirst(st, S) ==
  IF S = {} THEN <<>>
  ELSE LET c == CHOOSE c \in S :
                  \A d \in S :
                    \/ RLt(st.cards[d].positionZ, st.cards[c].positionZ)
                    \/ st.cards[d].positionZ = st.cards[c].positionZ /\ c <= d
       IN  <<c>> \o NearestFirst(st, S \ {c})

\* raycaster.intersectObjects(this.cards, false) after setFromCamera
intersectObjects(st, cardScale) ==
  NearestFirst(st, {i \in DOMAIN st.cards : RayMeets(st, i, cardScale)})

\* animate of the later and of the earlier variant, the section being found
animateLater(st, sec, rectTop, currentScroll, aspect) ==
  LET posed == Posed(st, sec, rectTop, currentScroll)
  IN  checkIntersections(posed,
        IF RayIsCast(posed) THEN intersectObjects(posed, CardScale(aspect))
        ELSE <<>>)

animateEarlier(st, sec, rectTop, currentScroll, aspect) ==
  LET posed == Posed(st, sec, rectTop, currentScroll)
  IN  checkIntersectionsEarlier(posed,
        IF RayIsCast(posed) THEN intersectObjects(posed, CardScaleEarlier(aspect))
        ELSE <<>>)

\* pointer positions on the canvas: its centre and a point 12 px right of it
SurfacePoints == {<<400, 200>>, <<412, 200>>}

\* the fields of the earlier variant as a handler finds them
Earlier == [probe.this EXCEPT !.emitted = <<>>]

\* the later variant's fields become st and the earlier variant's become e
CommitBoth(st, e) ==
  /\ renderer' = st.renderer
  /\ listening' = st.listening
  /\ cameraAspect' = st.cameraAspect
  /\ sectionTop' = st.sectionTop
  /\ sectionBottom' = st.sectionBottom
  /\ scrollProgress' = st.scrollProgress
  /\ stickyStartScroll' = st.stickyStartScroll
  /\ mouse' = st.mouse
  /\ mouseIsOver' = st.mouseIsOver
  /\ hoveredCard' = st.hoveredCard
  /\ interactionsEnabled' = st.interactionsEnabled
  /\ cursor' = st.cursor
  /\ cards' = st.cards
  /\ emitted' = st.emitted
  /\ probe' = [probe EXCEPT !.this = e]

VariantInit ==
  \E size \in {Null} \cup {Some(z) : z \in ContainerSizes},
     sec \in SectionInputs, innerWidth \in WindowWidths :
    /\ Holds(Started(size, sec, innerWidth))
    /\ probe = [ this   |-> StartedEarlier(size, sec, innerWidth),
                 aspect |-> CardsAspect(size, innerWidth) ]

VariantFrame ==
  \E sec \in FrameSections(This), rectTop \in TopEdges :
    \E currentScroll \in (IF sec # Null /\ rectTop <= 0 THEN ScrollOffsets ELSE {0}) :
      IF sec = Null
      THEN CommitBoth(This, Earlier)
      ELSE LET later == animateLater(This, sec, rectTop, currentScroll, probe.aspect)
               earlier == animateEarlier(Earlier, sec, rectTop, currentScroll,
                                         probe.aspect)
           IN  /\ SmoothBounded(later)
               /\ SmoothBounded(earlier)
               /\ CommitBoth(later, earlier)

VariantMouseMove ==
  /\ listening
  /\ \E client \in SurfacePoints :
       CommitBoth(onMouseMove(This, client), onMouseMove(Earlier, client))

VariantMouseLeave ==
  /\ listening
  /\ CommitBoth(onMouseLeave(This), onMouseLeave(Earlier))

VariantClick ==
  /\ listening
  /\ CommitBoth(onClick(This), onClick(Earlier))

VariantResize ==
  \E size \in ContainerSizes, sec \in SectionInputs :
    CommitBoth(onResize(This, size, sec), onResize(Earlier, size, sec))

VariantNext ==
  VariantFrame \/ VariantMouseMove \/ VariantMouseLeave \/ VariantClick
    \/ VariantResize

VariantSpec == VariantInit /\ [][VariantNext]_<<vars, probe>>

----------------------------------------------------------------------------
(* Methods studied on their own.  The object stays as constructed and      *)
(* probe holds the arguments and the results.                              *)

allVars == <<vars, probe>>

\* the scroll tracking of animate for any value of the adjustable field
\* this.ANIMATION_SCROLL_DISTANCE
ScrollDistances ==
  {0 - ANIMATION_SCROLL_DISTANCE, 0 - ScrollStep, 0, ScrollStep,
   ANIMATION_SCROLL_DISTANCE}

DistanceInit ==
  /\ Holds(Constructed)
  /\ \E distance \in ScrollDistances :
       probe = [this |-> Constructed, distance |-> distance]

DistanceFrame ==
  /\ \E sec \in FrameSections(probe.this) \ {Null}, rectTop \in TopEdges,
        currentScroll \in ScrollOffsets :
       probe' = [probe EXCEPT !.this =
                   TrackScrollAt(@, sec, rectTop, currentScroll, probe.distance)]
  /\ UNCHANGED vars

DistanceSpec == DistanceInit /\ [][DistanceFrame]_allVars

\* the phase scheduler of applyScrollAnimation for any scrollProgress from
\* -1/5 (the least value a scroll back of ScrollStep gives) to 1
ProgressSamples ==
  {Rat(k, 5 * SamplesPerFifth) : k \in (0 - SamplesPerFifth) .. 5 * SamplesPerFifth}

EasingInit ==
  /\ Holds(Constructed)
  /\ \E p \in ProgressSamples : probe = [scrollProgress |-> p, phase |-> Null]

EasePhase ==
  /\ probe.phase = Null
  /\ probe' = [probe EXCEPT !.phase = Some(Phase(probe.scrollProgress))]
  /\ UNCHANGED vars

EasingSpec == EasingInit /\ [][EasePhase]_allVars

\* the hover smoothing of applyScrollAnimation towards a target that stays
\* the same: hoverScale between 1 and 1.1, hoverZ between 0 and 1.5.  start,
\* current and target are numerators over the denominator unit, which every
\* frame multiplies by 20.
HoverRanges ==
  { [field |-> "hoverScale", unit |-> 10 * RangeSamples,
     low |-> 10 * RangeSamples, high |-> 11 * RangeSamples, step |-> 1],
    [field |-> "hoverZ", unit |-> 10 * RangeSamples,
     low |-> 0, high |-> 15 * RangeSamples, step |-> 15] }

SmoothInit ==
  /\ Holds(Constructed)
  /\ \E range \in HoverRanges, k \in 0 .. RangeSamples :
       \E target \in {range.low, range.high} :
         probe = [ field   |-> range.field,
                   start   |-> BigOf(range.low + k * range.step),
                   current |-> BigOf(range.low + k * range.step),
                   target  |-> BigOf(target),
                   unit    |-> BigOf(range.unit),
                   frames  |-> 0 ]

SmoothFrame ==
  /\ probe.frames < MaxFrames
  /\ probe' = [probe EXCEPT !.current = SmoothExact(probe.current, probe.target),
                            !.start = BigTimes(@, 20, 0),
                            !.target = BigTimes(@, 20, 0),
                            !.unit = BigTimes(@, 20, 0),
                            !.frames = @ + 1]
  /\ UNCHANGED vars

SmoothSpec == SmoothInit /\ [][SmoothFrame]_allVars

\* the layout createCards computes for the five categories, in both variants,
\* for a container of any width (0 for one that is not displayed) and height
LayoutSamples == 16
LayoutWidths == {160 * k : k \in 0 .. LayoutSamples}
LayoutHeights == {200, 300, 400, 500}
NumCategories == Len(CategoryNames)

LayoutInit ==
  /\ Holds(Constructed)
  /\ \E width \in LayoutWidths, height \in LayoutHeights :
       probe = [ containerWidth  |-> width,
                 containerHeight |-> height,
                 aspect          |-> Rat(width, height),
                 later           |-> Null,
                 earlier         |-> Null ]

LayoutCreate ==
  /\ probe.later = Null
  /\ probe' = [probe EXCEPT
                 !.later = Some([i \in 0 .. NumCategories - 1 |->
                                   targetX(i, NumCategories, probe.aspect)]),
                 !.earlier = Some([i \in 0 .. NumCategories - 1 |->
                                     targetXEarlier(i, NumCategories, probe.aspect)])]
  /\ UNCHANGED vars

LayoutSpec == LayoutInit /\ [][LayoutCreate]_allVars

\* easeInOutCubic on neighbouring points t and next of an even grid of [0, 1]
CurveSteps == 5 * SamplesPerFifth

CurveInit ==
  /\ Holds(Constructed)
  /\ \E k \in 0 .. CurveSteps - 1 :
       probe = [ t         |-> Rat(k, CurveSteps),
                 next      |-> Rat(k + 1, CurveSteps),
                 eased     |-> Null,
                 easedNext |-> Null ]

CurveEase ==
  /\ probe.eased = Null
  /\ probe' = [probe EXCEPT !.eased = Some(easeInOutCubic(probe.t)),
                            !.easedNext = Some(easeInOutCubic(probe.next))]
  /\ UNCHANGED vars

CurveSpec == CurveInit /\ [][CurveEase]_allVars

----------------------------------------------------------------------------
(* Properties.                                                             *)

\* no frame has posed the cards yet: they are where createCards put them
AsCreated ==
  \A i \in DOMAIN cards :
    cards[i].positionX = Rat(cards[i].index, 4) /\ cards[i].rotationY = One

\* the sections a frame of this state can find present (the offset is read
\* only while this.sectionTop is 0), and the top edges on either side
\* of the sticky threshold
PresentSections == FrameSections(This) \ {Null}
TopsAbove == {t \in TopEdges : t > 0}
TopsAtOrBelow == {t \in TopEdges : t <= 0}

\* Frame is enabled for a frame that finds the section's top edge > 0
UnpinningFrameCanRun(sec, rectTop) ==
  /\ sec \in FrameSections(This)
  /\ rectTop \in TopsAbove
  /\ SmoothBounded(animate(This, sec, rectTop, 0, <<>>))

\* C1: after any sequence of frames scrollProgress lies in [0, 1], also when
\* the scroll offset drops below the recorded anchor while the section's top
\* edge is still <= 0.
C1_ProgressInUnitInterval ==
  RLe(Zero, scrollProgress) /\ RLe(scrollProgress, One)

\* C2: once a frame has posed the cards, no card has left its initial
\* horizontal position while scrollProgress <= 0.4 (spreadEased is 0), and a
\* card is off its initial position (spreadEased > 0) only when the flip is
\* complete: rotation 0 and the flip ratio at 1.
C2_FlipBeforeSpread ==
  ~AsCreated =>
    \A i \in DOMAIN cards :
      /\ RLe(scrollProgress, <<2, 5>>) => cards[i].positionX = cards[i].initialX
      /\ cards[i].positionX # cards[i].initialX =>
           cards[i].rotationY = Zero /\ interactionsEnabled

C2_Witness ==
  /\ ~AsCreated
  /\ scrollProgress = <<2, 5>>
  /\ \A i \in DOMAIN cards :
       cards[i].rotationY = Zero /\ cards[i].positionX = cards[i].initialX

\* C3: interactionsEnabled is false while scrollProgress < 0.4 and true while
\* scrollProgress >= 0.4.
C3_EnabledIffFlipDone ==
  interactionsEnabled <=> RLe(<<2, 5>>, scrollProgress)

C3_Witness ==
  /\ interactionsEnabled
  /\ scrollProgress = <<2, 5>>
  /\ stickyStartScroll # Null

\* C4: a step that takes scrollProgress to 0 while interactions were enabled
\* and a card was hovered leaves interactionsEnabled false and hoveredCard
\* null, with the cursor reset, and poses every card towards the unhovered
\* targets; and no step ends with interactionsEnabled false and a hovered card.
C4_ResetClearsHover ==
  [][ /\ (interactionsEnabled /\ hoveredCard # Null /\ scrollProgress' = Zero) =>
           /\ ~interactionsEnabled'
           /\ hoveredCard' = Null
           /\ cursor' = "default"
           /\ \A i \in DOMAIN cards :
                /\ cards'[i].hoverScale = Smooth(cards[i].hoverScale, One)
                /\ cards'[i].hoverZ = Smooth(cards[i].hoverZ, Zero)
      /\ ~interactionsEnabled' => hoveredCard' = Null ]_vars

\* a card is hovered and a frame that resets scrollProgress can run
C4_Witness ==
  /\ interactionsEnabled
  /\ hoveredCard # Null
  /\ \E sec \in PresentSections, rectTop \in TopsAbove : UnpinningFrameCanRun(sec, rectTop)

\* C5: a click dispatches exactly one event, carrying the hovered card's
\* label and index, when interactionsEnabled is true and hoveredCard is
\* non-null, and dispatches nothing otherwise.
C5_ClickEmitsOnce ==
  [][ Click =>
        IF interactionsEnabled /\ hoveredCard # Null
        THEN emitted' = << [ category |-> cards[Val(hoveredCard)].categoryName,
                             index    |-> Val(hoveredCard) ] >>
        ELSE emitted' = <<>> ]_vars

C5_Witness ==
  /\ Len(emitted) = 1
  /\ hoveredCard # Null
  /\ emitted[1].index = Val(hoveredCard)
  /\ emitted[1].category = CategoryNames[Val(hoveredCard) + 1]

\* C6: hoveredCard is non-null only while the pointer is over the canvas
\* (mouseIsOver true, pointer not at the off-screen sentinel); from a
\* pointer-leave until the next pointer-move hoveredCard is null.
C6_HoverOnlyWhileOver ==
  hoveredCard # Null => mouseIsOver /\ mouse # OffScreen

\* the pointer has left after a card had been hovered and raised
C6_Witness ==
  /\ ~mouseIsOver
  /\ mouse = OffScreen
  /\ hoveredCard = Null
  /\ interactionsEnabled
  /\ \E i \in DOMAIN cards : cards[i].hoverZ # Zero

\* C7: a frame that finds the section's top edge > 0 leaves scrollProgress 0
\* and the anchor null, whatever they were before.
C7_UnpinnedFrameSnapsBack ==
  \A sec \in PresentSections, rectTop \in TopsAbove, currentScroll \in ScrollOffsets :
    LET st == animate(This, sec, rectTop, currentScroll, <<>>)
    IN  st.scrollProgress = Zero /\ st.stickyStartScroll = Null

\* in the middle of the spread phase, and a frame that unpins can run
C7_Witness ==
  /\ stickyStartScroll # Null
  /\ RLt(<<2, 5>>, scrollProgress) /\ RLt(scrollProgress, One)
  /\ \E sec \in PresentSections : UnpinningFrameCanRun(sec, 640)

\* C8: a frame that finds the top edge <= 0 while the anchor is null sets the
\* anchor to its scroll offset and scrollProgress to 0; a frame that finds
\* the top edge <= 0 while the anchor is set keeps the anchor.
C8_AnchorSetOnceWhilePinned ==
  \A sec \in PresentSections, rectTop \in TopsAtOrBelow, currentScroll \in ScrollOffsets :
    LET posed == Posed(This, sec, rectTop, currentScroll)
    IN  \A intersects \in RayResultsOn(posed) :
          LET st == checkIntersections(posed, intersects)
          IN  IF stickyStartScroll = Null
              THEN st.stickyStartScroll = Some(currentScroll) /\ st.scrollProgress = Zero
              ELSE st.stickyStartScroll = stickyStartScroll

\* pinned frames have moved the progress and kept a non-zero anchor
C8_Witness ==
  /\ stickyStartScroll = Some(ScrollStep)
  /\ scrollProgress = <<3, 5>>

\* C9: from a pinned state, a frame with the top edge > 0 followed by frames
\* with the top edge <= 0 at scroll offsets s2 and s3 measures progress from
\* s2: the anchor is s2 and scrollProgress is min(1, (s3 - s2) / 3200).
C9_RepinRestartsMapping ==
  stickyStartScroll # Null =>
    \A sec \in PresentSections, s2 \in ScrollOffsets :
      LET unpinned == animate(This, sec, 640, s2, <<>>)
          repinned == animate(unpinned, sec, 0, s2, <<>>)
      IN  /\ repinned.stickyStartScroll = Some(s2)
          /\ repinned.scrollProgress = Zero
          /\ \A s3 \in ScrollOffsets :
               LET later == animate(repinned, sec, 0, s3, <<>>)
               IN  /\ later.stickyStartScroll = Some(s2)
                   /\ later.scrollProgress =
                        RMin(One, Rat(s3 - s2, ANIMATION_SCROLL_DISTANCE))

\* pinned at the far end of the page with the animation complete
C9_Witness ==
  /\ stickyStartScroll # Null
  /\ Val(stickyStartScroll) > 0
  /\ scrollProgress = One
  /\ interactionsEnabled

\* the section is not pinned and nothing is animated or interactive
NeverPinnedState ==
  /\ stickyStartScroll = Null
  /\ scrollProgress = Zero
  /\ ~interactionsEnabled
  /\ hoveredCard = Null
  /\ emitted = <<>>

\* C10: while no frame finds the section's top edge <= 0 (the anchor stays
\* null), scrollProgress is 0, interactionsEnabled is false, hoveredCard is
\* null and no click dispatches an event: this holds initially and every
\* step that leaves the anchor null preserves it.
C10_NeverPinnedStaysIdle ==
  /\ NeverPinnedState
  /\ [][ (NeverPinnedState /\ stickyStartScroll' = Null) => NeverPinnedState' ]_vars

\* frames have run with the top edge > 0 while the pointer is over the canvas
C10_Witness ==
  /\ NeverPinnedState
  /\ ~AsCreated
  /\ mouseIsOver

\* C11: when ANIMATION_SCROLL_DISTANCE is zero or negative, every frame that
\* finds the section pinned leaves scrollProgress = 1.
C11_NonPositiveDistanceIsComplete ==
  (probe.distance <= 0 /\ probe.this.stickyStartScroll # Null) =>
    probe.this.scrollProgress = One

\* the unit interval [0, 1]
InUnit(x) == RLe(Zero, x) /\ RLe(x, One)

\* C12: for every scrollProgress in [0, 1] the eased flip and the eased spread
\* the phase scheduler computes both lie in [0, 1].
C12_EasedValuesInUnitInterval ==
  (probe.phase # Null /\ InUnit(probe.scrollProgress)) =>
    /\ InUnit(Val(probe.phase).easedFlip)
    /\ InUnit(Val(probe.phase).easedSpread)

\* halfway through the spread phase, the flip complete
C12_Witness ==
  /\ probe.phase # Null
  /\ probe.scrollProgress = <<7, 10>>
  /\ Val(probe.phase).easedFlip = One
  /\ Val(probe.phase).easedSpread = <<1, 2>>

\* C13: the eased flip is 1 at scrollProgress = 0.4 and above, and less than 1
\* at every scrollProgress below 0.4.
C13_FlipCompleteFromTwoFifths ==
  probe.phase # Null =>
    IF RLe(<<2, 5>>, probe.scrollProgress)
    THEN Val(probe.phase).easedFlip = One
    ELSE RLt(Val(probe.phase).easedFlip, One)

\* the flip completes exactly at 0.4
C13_Witness ==
  /\ probe.phase # Null
  /\ probe.scrollProgress = <<2, 5>>
  /\ Val(probe.phase).easedFlip = One
  /\ Val(probe.phase).easedSpread = Zero

\* hoveredCard is null or one of the cards
HoverIsOneCard ==
  hoveredCard = Null \/ (Len(hoveredCard) = 1 /\ Val(hoveredCard) \in DOMAIN cards)

\* the cards a step moves towards the raised hover targets 1.1 and 1.5
RaisedInStep ==
  {i \in DOMAIN cards :
     /\ cards'[i].hoverScale = Smooth(cards[i].hoverScale, <<11, 10>>)
     /\ cards'[i].hoverZ = Smooth(cards[i].hoverZ, <<3, 2>>)}

\* C14: in every reachable state at most one card is hovered, whatever list
\* the ray cast returned, and every frame moves at most one card towards the
\* raised hover targets.
C14_AtMostOneCardHovered ==
  /\ HoverIsOneCard
  /\ [][HoverIsOneCard' /\ Cardinality(RaisedInStep) <= 1]_vars

\* the first card is hovered and raised, every other card rests
C14_Witness ==
  /\ hoveredCard = Some(0)
  /\ cards[0].hoverZ # Zero
  /\ cards[0].hoverScale # One
  /\ \A i \in DOMAIN cards \ {0} : cards[i].hoverZ = Zero /\ cards[i].hoverScale = One

\* C15: with scrollProgress = 1 and the pointer over the canvas, a frame that
\* keeps scrollProgress = 1 and whose ray cast returns a list with nearest hit
\* c leaves hoveredCard = c, and a click after it dispatches exactly one event
\* carrying c's category name and index.
C15_NearestHitHoveredThenClicked ==
  (scrollProgress = One /\ mouseIsOver) =>
    \A sec \in PresentSections, rectTop \in TopsAtOrBelow,
       currentScroll \in ScrollOffsets :
      LET posed == Posed(This, sec, rectTop, currentScroll)
      IN  posed.scrollProgress = One =>
            \A intersects \in HitLists \ {<<>>} :
              LET c == intersects[1]
                  framed == checkIntersections(posed, intersects)
                  clicked == onClick(framed)
              IN  /\ framed.hoveredCard = Some(c)
                  /\ clicked.emitted =
                       <<[category |-> cards[c].categoryName, index |-> c]>>

\* fully spread, the pointer over a card, and the click just dispatched
C15_Witness ==
  /\ scrollProgress = One
  /\ mouseIsOver
  /\ hoveredCard # Null
  /\ cursor = "pointer"
  /\ Len(emitted) = 1
  /\ emitted[1].index = Val(hoveredCard)

\* C16: after a frame that leaves scrollProgress = 0 every card is at its
\* stacked position initialX with rotation pi, and interactions are disabled.
C16_StackedAtZero ==
  (~AsCreated /\ scrollProgress = Zero) =>
    /\ ~interactionsEnabled
    /\ \A i \in DOMAIN cards :
         /\ cards[i].positionX = cards[i].initialX
         /\ cards[i].rotationY = One

\* pinned at the anchor itself: the frame posed the cards with progress 0
C16_Witness ==
  /\ ~AsCreated
  /\ scrollProgress = Zero
  /\ stickyStartScroll # Null
  /\ \A i \in DOMAIN cards : cards[i].rotationY = One

\* C17: after a frame that leaves scrollProgress = 1 every card is at its
\* targetX with rotation 0, and interactions are enabled.
C17_SpreadAtOne ==
  scrollProgress = One =>
    /\ interactionsEnabled
    /\ \A i \in DOMAIN cards :
         /\ cards[i].positionX = cards[i].targetX
         /\ cards[i].rotationY = Zero

\* fully spread: the cards have left the stack for distinct targets
C17_Witness ==
  /\ scrollProgress = One
  /\ \A i \in DOMAIN cards : cards[i].positionX = cards[i].targetX
  /\ \E i \in DOMAIN cards : cards[i].targetX # cards[i].initialX

\* |current - target| of the smoothed value pr, as a numerator over pr.unit
HoverDistance(pr) == BigDistance(pr.current, pr.target)

\* |start - target| of the smoothed value pr, as a numerator over pr.unit
StartDistance(pr) == BigDistance(pr.start, pr.target)

\* C18 as stated: with a constant target every frame strictly decreases
\* |current - target|, for hoverScale and for hoverZ.
C18_EveryFrameStrictlyCloser ==
  [][BigLess(HoverDistance(probe'), BigTimes(HoverDistance(probe), 20, 0))]_allVars

\* C18 amended: with a constant target every frame multiplies
\* |current - target| by 0.85, so the distance strictly decreases while
\* current differs from the target and stays 0 once current equals it.
C18_CloserUnlessAtTarget ==
  [][ /\ HoverDistance(probe') = BigTimes(HoverDistance(probe), 17, 0)
      /\ IF probe.current = probe.target
         THEN probe'.current = probe'.target
         ELSE BigLess(HoverDistance(probe'),
                      BigTimes(HoverDistance(probe), 20, 0)) ]_allVars

\* hoverScale rising towards 1.1, two frames on
C18_Witness ==
  /\ probe.field = "hoverScale"
  /\ probe.frames = 2
  /\ BigLess(probe.start, probe.current)
  /\ BigLess(probe.current, probe.target)

\* C19 as stated: with a constant target, after 40 frames the value is
\* within 1% of the target, from any start in its range.
C19_WithinOnePercentOfTarget ==
  probe.frames >= 40 =>
    ~BigLess(probe.target, BigTimes(HoverDistance(probe), 100, 0))

\* C19 amended: with a constant target, after 29 frames (so within 40) the
\* value is within 1% of its initial distance from the target, from any start
\* in its range, and within 1% of the target when the target is not 0.
C19_WithinOnePercentOfStartDistance ==
  probe.frames >= 29 =>
    /\ ~BigLess(StartDistance(probe), BigTimes(HoverDistance(probe), 100, 0))
    /\ probe.target # <<>> =>
         ~BigLess(probe.target, BigTimes(HoverDistance(probe), 100, 0))

\* hoverZ falling from 1.5 towards 0, forty frames on and still above 0
C19_Witness ==
  /\ probe.field = "hoverZ"
  /\ probe.frames = 40
  /\ probe.target = <<>>
  /\ probe.current # <<>>
  /\ BigTimes(StartDistance(probe), 2, 0) = BigTimes(probe.unit, 3, 0)

\* C20: a frame that finds #categories-section absent changes nothing:
\* scrollProgress, the anchor, interactionsEnabled, hoveredCard, the cursor and
\* every card pose stay as they were and no event is dispatched.
C20_AbsentSectionIsNoOp ==
  \A rectTop \in TopEdges, currentScroll \in ScrollOffsets, intersects \in HitLists :
    LET st == animate(This, Null, rectTop, currentScroll, intersects)
    IN  /\ st.scrollProgress = scrollProgress
        /\ st.stickyStartScroll = stickyStartScroll
        /\ st.interactionsEnabled = interactionsEnabled
        /\ st.hoveredCard = hoveredCard
        /\ st.cursor = cursor
        /\ st.cards = cards
        /\ st.emitted = <<>>

\* mid-spread with a card hovered and raised: a frame would move all of it
C20_Witness ==
  /\ scrollProgress = <<3, 5>>
  /\ stickyStartScroll # Null
  /\ hoveredCard # Null
  /\ \E i \in DOMAIN cards : cards[i].hoverZ # Zero

\* C21: when init found no #category-cards-container (no renderer, camera or
\* listeners were created), every later frame is a no-op: scrollProgress, the
\* anchor, interactionsEnabled, hoveredCard and the card poses stay unchanged.
C21_NoContainerNoFrames ==
  [][~renderer =>
       /\ scrollProgress' = scrollProgress
       /\ stickyStartScroll' = stickyStartScroll
       /\ interactionsEnabled' = interactionsEnabled
       /\ hoveredCard' = hoveredCard
       /\ cards' = cards]_vars

\* destroy() has run on a component that had a renderer
Destroyed == renderer /\ ~listening

\* C22: after destroy() no pointer-move, pointer-leave, click or resize
\* callback of the component runs: no step of a destroyed component is the
\* effect of one of them.
C22_NoCallbackAfterDestroy ==
  [][Destroyed => ~(MouseMove \/ MouseLeave \/ Click \/ Resize)]_vars

\* this state, had sectionTop/sectionBottom been cached from an offset top
WithCachedTop(top) ==
  [This EXCEPT !.sectionTop = top, !.sectionBottom = top + SectionHeight]

\* C23: the frame that follows a resize computes scrollProgress (and the
\* anchor it is measured from) from the bounding rectangle and scroll offset
\* it samples itself: whatever sectionTop/sectionBottom were cached before the
\* resize, the result is the same.
C23_ProgressIgnoresCachedGeometry ==
  [](\A size \in ContainerSizes, resized \in SectionInputs,
        stale \in SectionOffsets \cup {640} :
       LET fresh == onResize(This, size, resized)
           other == onResize(WithCachedTop(stale), size, resized)
       IN  \A sec \in SectionInputs \ {Null}, rectTop \in TopEdges :
             \A currentScroll \in (IF rectTop <= 0 THEN ScrollOffsets ELSE {0}) :
               LET a == TrackScroll(fresh, sec, rectTop, currentScroll)
                   b == TrackScroll(other, sec, rectTop, currentScroll)
               IN  /\ a.scrollProgress = b.scrollProgress
                   /\ a.stickyStartScroll = b.stickyStartScroll)

\* a component with a renderer whose cached offset is not 0, pinned part-way
C23_Witness ==
  /\ renderer
  /\ sectionTop # 0
  /\ stickyStartScroll # Null
  /\ RLt(Zero, scrollProgress) /\ RLt(scrollProgress, One)

\* C24: in every reachable state, between frames as well as after one and
\* whatever pointer events came in between, no card is hovered while
\* interactions are disabled; so the frame that enables them starts from no
\* hover.
C24_DisabledMeansNoHover == ~interactionsEnabled => hoveredCard = Null

\* the pointer is over the canvas while the cards are part-way through the
\* flip, interactions disabled
C24_Witness ==
  /\ ~interactionsEnabled
  /\ mouseIsOver
  /\ hoveredCard = Null
  /\ stickyStartScroll # Null
  /\ RLt(Zero, scrollProgress)

\* C25: the cursor style of the canvas mirrors the hover in every reachable
\* state: 'pointer' exactly when a card is hovered, 'default' exactly when none
\* is; holding in every state, it changes in the very step that changes
\* hoveredCard. Without a canvas there is no cursor style and never a hover.
C25_CursorMirrorsHover ==
  /\ renderer => /\ cursor = "pointer" <=> hoveredCard # Null
                 /\ cursor = "default" <=> hoveredCard = Null
  /\ ~renderer => hoveredCard = Null /\ cursor = "none"

\* a card was hovered and raised, then the hover ended: the cursor is back to
\* 'default' while the card is still settling
C25_Witness ==
  /\ renderer
  /\ cursor = "default"
  /\ hoveredCard = Null
  /\ \E i \in DOMAIN cards : cards[i].hoverScale # One

\* C26: a frame that finds interactions enabled with the pointer over the
\* canvas leaves hoveredCard equal to the first (nearest) object of the ray
\* cast result, or null when the ray hits no card, whichever card was hovered
\* before.
C26_PickTakesNearestOrNone ==
  []((renderer /\ mouseIsOver) =>
       \A sec \in PresentSections, rectTop \in TopsAtOrBelow,
          currentScroll \in ScrollOffsets :
         LET posed == Posed(This, sec, rectTop, currentScroll)
         IN  posed.interactionsEnabled =>
               \A intersects \in HitLists :
                 checkIntersections(posed, intersects).hoveredCard
                   = IF intersects = <<>> THEN Null ELSE Some(intersects[1]))

\* card 0 was hovered and raised, and a later pick replaced it by card 1
C26_Witness ==
  /\ interactionsEnabled
  /\ mouseIsOver
  /\ hoveredCard = Some(1)
  /\ cards[0].hoverZ # Zero

\* current + 0.15 * (target - current)
MovedTowards(current, target) ==
  RAdd(current, RMul(Rat(15, 100), RSub(target, current)))

\* C27: every frame that finds the section poses the cards, in whatever scroll
\* phase and also while interactions are disabled, and moves each card's
\* hoverScale and hoverZ by 0.15 * (target - current); the target is
\* (1.1, 1.5) when interactions are enabled and the card is the hovered one at
\* the pose step, and (1, 0) otherwise.
C27_HoverSmoothedEveryFrame ==
  [](\A sec \in PresentSections, rectTop \in TopEdges :
       \A currentScroll \in (IF rectTop <= 0 THEN ScrollOffsets ELSE {0}) :
         LET posed == Posed(This, sec, rectTop, currentScroll)
         IN  \A i \in DOMAIN cards :
               LET isHovered ==
                     posed.interactionsEnabled /\ posed.hoveredCard = Some(i)
               IN  /\ posed.cards[i].hoverScale
                        = MovedTowards(cards[i].hoverScale,
                                       IF isHovered THEN <<11, 10>> ELSE One)
                   /\ posed.cards[i].hoverZ
                        = MovedTowards(cards[i].hoverZ,
                                       IF isHovered THEN <<3, 2>> ELSE Zero))

\* a frame has moved the hovered card from rest by 0.15 * 0.1 and 0.15 * 1.5
\* and has left the other cards at rest
C27_Witness ==
  \E i \in DOMAIN cards :
    /\ hoveredCard = Some(i)
    /\ cards[i].hoverScale = <<203, 200>>
    /\ cards[i].hoverZ = <<9, 40>>
    /\ \A j \in DOMAIN cards \ {i} :
          cards[j].hoverScale = One /\ cards[j].hoverZ = Zero

\* a step that posed the cards or moved the scroll mapping: a frame that found
\* the section
FrameStep ==
  \/ cards' # cards
  \/ scrollProgress' # scrollProgress
  \/ stickyStartScroll' # stickyStartScroll
  \/ interactionsEnabled' # interactionsEnabled

\* C28: a frame computes scrollProgress, then interactionsEnabled from it
\* (clearing the hover on its falling edge), then poses every card, then runs
\* the pick: interactionsEnabled and the rotations it leaves are those of the
\* scrollProgress it leaves, the cards were posed with the hover as it stood
\* before the pick (a card the pick newly hovers was moved towards rest, the
\* card hovered until then towards raised), and a pick only happens with
\* interactions enabled by this very frame.
C28_PickAfterProgressGateAndPose ==
  [][FrameStep =>
       LET ph == Phases[scrollProgress']
       IN  /\ interactionsEnabled' = FlipComplete(ph.flipProgress)
           /\ \A i \in DOMAIN cards :
                 cards'[i].rotationY
                   = RMul(cards[i].initialRotation, RSub(One, ph.easedFlip))
           /\ (interactionsEnabled /\ ~interactionsEnabled') => hoveredCard' = Null
           /\ hoveredCard' # Null => interactionsEnabled'
           /\ \A i \in DOMAIN cards :
                 LET posedHovered == interactionsEnabled' /\ hoveredCard = Some(i)
                 IN  /\ cards'[i].hoverScale
                          = Smooth(cards[i].hoverScale,
                                   IF posedHovered THEN <<11, 10>> ELSE One)
                     /\ cards'[i].hoverZ
                          = Smooth(cards[i].hoverZ,
                                   IF posedHovered THEN <<3, 2>> ELSE Zero)]_vars

\* the frame that completed the flip also picked a card: the card is hovered
\* and still at rest, the frame having posed it before the pick
C28_Witness ==
  /\ scrollProgress = <<2, 5>>
  /\ hoveredCard # Null
  /\ \A i \in DOMAIN cards :
        cards[i].hoverZ = Zero /\ cards[i].rotationY = Zero

\* a step that put the pointer over the canvas or moved it there
PointerMoveStep == mouseIsOver' /\ (mouse' # mouse \/ ~mouseIsOver)

\* C29: a pointer-move writes the pointer coordinates and mouseIsOver and
\* nothing else, hoveredCard least of all; and of several pointer-moves
\* between two frames only the last is left for the next frame: the fields
\* after two moves are the fields after the second alone.
C29_PointerMoveLastWriteWins ==
  /\ [](\A first \in ClientPoints, last \in ClientPoints :
         /\ onMouseMove(onMouseMove(This, first), last) = onMouseMove(This, last)
         /\ renderer => onMouseMove(This, last).mouse = ToNdc(last, CanvasRect))
  /\ [][PointerMoveStep =>
          /\ hoveredCard' = hoveredCard
          /\ cursor' = cursor
          /\ interactionsEnabled' = interactionsEnabled
          /\ scrollProgress' = scrollProgress
          /\ stickyStartScroll' = stickyStartScroll
          /\ cards' = cards
          /\ sectionTop' = sectionTop /\ sectionBottom' = sectionBottom
          /\ cameraAspect' = cameraAspect
          /\ renderer' = renderer /\ listening' = listening]_vars

\* the pointer moved to the second point while card 1 was hovered and raised
C29_Witness ==
  /\ mouseIsOver
  /\ mouse = ToNdc(<<800, 400>>, CanvasRect)
  /\ hoveredCard = Some(1)
  /\ cards[1].hoverZ # Zero

Symmetric(xs, n) == \A i \in 0 .. n - 1 : xs[i] = RNeg(xs[n - 1 - i])

\* the targetX values xs of the n cards grow with the index
Increasing(xs, n) == \A i \in 0 .. n - 2 : RLt(xs[i], xs[i + 1])

\* C31: in both variants the targetX of the created cards is symmetric about
\* the centre, targetX[i] = -targetX[n-1-i], and strictly increasing in the
\* index whenever the computed spacing is positive.
C31_TargetsSymmetricAndOrdered ==
  probe.later # Null =>
    /\ Symmetric(Val(probe.later), NumCategories)
    /\ Symmetric(Val(probe.earlier), NumCategories)
    /\ RLt(Zero, Spacing(probe.aspect)) =>
          Increasing(Val(probe.later), NumCategories)
    /\ RLt(Zero, SpacingEarlier(probe.aspect)) =>
          Increasing(Val(probe.earlier), NumCategories)

\* cards were laid out for a container narrow enough for the scale to stay
\* below its cap of 5, with positive spacing in both variants
C31_Witness ==
  /\ probe.later # Null
  /\ RLt(Zero, Spacing(probe.aspect))
  /\ RLt(CardScale(probe.aspect), R(5))
  /\ RLt(CardScaleEarlier(probe.aspect), R(5))
  /\ Val(probe.later)[0] # Val(probe.earlier)[0]

\* C32: easeInOutCubic maps 0 to 0 and 1 to 1, does not decrease from one
\* point of [0, 1] to the next, and its two branches meet at t = 0.5, where
\* both give 0.5.
C32_EasingEndpointsMonotoneContinuous ==
  probe.eased # Null =>
    /\ probe.t = Zero => Val(probe.eased) = Zero
    /\ probe.next = One => Val(probe.easedNext) = One
    /\ RLe(Val(probe.eased), Val(probe.easedNext))
    /\ easeIn(<<1, 2>>) = <<1, 2>>
    /\ easeOut(<<1, 2>>) = <<1, 2>>
    /\ probe.t = <<1, 2>> => Val(probe.eased) = <<1, 2>>

\* the curve was evaluated on the last grid point below 0.5 and on 0.5: the
\* ease-in branch stays below the value at which the branches meet
C32_Witness ==
  /\ probe.eased # Null
  /\ probe.next = <<1, 2>>
  /\ RLt(Val(probe.eased), <<1, 2>>)
  /\ Val(probe.easedNext) = <<1, 2>>

\* v lies in [low, high]
Within(v, low, high) == RLe(low, v) /\ RLe(v, high)

\* C33: in every reachable state each card's hoverScale lies in [1, 1.1] and
\* its hoverZ in [0, 1.5], its scale and elevation follow them (position.z
\* within [baseZ, baseZ + 1.5]), and one more smoothing step towards either
\* target stays inside the same ranges: the hover targets are never overshot.
C33_HoverValuesWithinTargets ==
  \A i \in DOMAIN cards :
    /\ Within(cards[i].hoverScale, One, <<11, 10>>)
    /\ Within(cards[i].hoverZ, Zero, <<3, 2>>)
    /\ cards[i].scale = cards[i].hoverScale
    /\ Within(cards[i].positionZ, cards[i].baseZ,
              RAdd(cards[i].baseZ, <<3, 2>>))
    /\ \A raised \in BOOLEAN :
          /\ Within(Smooth(cards[i].hoverScale,
                           IF raised THEN <<11, 10>> ELSE One),
                    One, <<11, 10>>)
          /\ Within(Smooth(cards[i].hoverZ, IF raised THEN <<3, 2>> ELSE Zero),
                    Zero, <<3, 2>>)

\* card 1 is part-way up: strictly inside both ranges, its elevation above
\* its base
C33_Witness ==
  /\ cards[1].hoverScale = <<203, 200>>
  /\ cards[1].hoverZ = <<9, 40>>
  /\ cards[1].positionZ = RAdd(cards[1].baseZ, <<9, 40>>)

\* what a click dispatches given the two fields the last frame or
\* pointer-leave left
DecidedBy(enabled, hovered) ==
  IF enabled /\ hovered # Null
  THEN << [ category |-> CategoryNames[Val(hovered) + 1],
            index    |-> Val(hovered) ] >>
  ELSE <<>>

\* C34: a click dispatches according to interactionsEnabled and hoveredCard
\* as they stand, left by the last frame or pointer-leave, and to nothing
\* else: pointer moves since then (and scroll changes, which no handler reads
\* before the next frame) change neither whether it dispatches nor the card
\* it names; and the click changes no field of the component.
C34_ClickDecidedByLastFrame ==
  LET clicked == onClick(This)
  IN  /\ clicked.emitted = DecidedBy(interactionsEnabled, hoveredCard)
      /\ [clicked EXCEPT !.emitted = <<>>] = This
      /\ \A first \in ClientPoints, last \in ClientPoints :
            /\ onClick(onMouseMove(This, last)).emitted = clicked.emitted
            /\ onClick(onMouseMove(onMouseMove(This, first), last)).emitted
                 = clicked.emitted

\* card 1 was picked, the pointer then moved to the other point, and the
\* click named card 1
C34_Witness ==
  /\ emitted = << [category |-> "Basketball", index |-> 1] >>
  /\ hoveredCard = Some(1)
  /\ cards[1].hoverZ = Zero
  /\ mouse = ToNdc(<<800, 400>>, CanvasRect)

\* C35: a frame run at scrollProgress = 0 leaves every card at the
\* horizontal position createCards gave it (position.x = i * 0.25): while
\* scrollProgress is 0 the cards are where they were created.
C35_ZeroProgressKeepsCreatedX ==
  scrollProgress = Zero =>
    \A i \in DOMAIN cards : cards[i].positionX = Rat(cards[i].index, 4)

\* C36: onResize leaves scrollProgress, the anchor stickyStartScroll,
\* interactionsEnabled, hoveredCard and every card's pose as they were; a
\* resize while pinned does not re-anchor: the pinned frame after it still
\* measures from the anchor set before it.
C36_ResizeKeepsScrollAndPoses ==
  [](\A size \in ContainerSizes, sec \in SectionInputs :
       LET resized == onResize(This, size, sec)
       IN  /\ resized.scrollProgress = scrollProgress
           /\ resized.stickyStartScroll = stickyStartScroll
           /\ resized.interactionsEnabled = interactionsEnabled
           /\ resized.hoveredCard = hoveredCard
           /\ resized.cards = cards
           /\ stickyStartScroll # Null =>
                 \A present \in FrameSections(resized) \ {Null},
                    rectTop \in TopsAtOrBelow, currentScroll \in ScrollOffsets :
                   LET tracked == TrackScroll(resized, present, rectTop, currentScroll)
                   IN  /\ tracked.stickyStartScroll = stickyStartScroll
                       /\ tracked.scrollProgress
                            = ProgressOf(currentScroll - Val(stickyStartScroll)))

\* the section offset was re-read by a resize (or by init) while the component
\* is pinned with a card hovered
C36_Witness ==
  /\ renderer
  /\ sectionTop = 1280
  /\ stickyStartScroll = Some(ScrollStep)
  /\ interactionsEnabled
  /\ hoveredCard # Null

====
